---- MODULE Spec2Model ----
(***************************************************************************)
(* Model of the persona registry (src/src/PersonaRegistry.ts) and of the   *)
(* JSON storage driver behind it (src/unnamed/part_004).                   *)
(*                                                                         *)
(* A JavaScript object is a function whose domain is the set of its keys   *)
(* that hold a defined value; reading a key outside the domain gives       *)
(* `undefined`.  An optional value is <<>> (undefined) or <<v>>.           *)
(* A Map is the sequence of its entries [k, v] in insertion order.         *)
(* A name is a sequence of tokens; the empty string is <<>>.               *)
(***************************************************************************)
EXTENDS Integers, Sequences, FiniteSets, TLC

VARIABLES
    personas,          \* PersonaRegistry.personas: Map id -> Persona (active)
    archivedPersonas,  \* PersonaRegistry.archivedPersonas: Map id -> Persona
    isDirty,           \* PersonaRegistry.isDirty
    autoSaveEnabled,   \* PersonaRegistry.options.autoSaveEnabled
    timer,             \* lodash debounce timer: -1 idle, else ms left to expiry
    inflight,          \* adapter saves awaiting their file write
    file,              \* content of the storage file
    nextId,            \* number of ids handed out by uuidv4 so far, plus one
    clock,             \* wall clock, read by new Date()
    ret,               \* the last call or event and its outcome
    hist               \* history of the run, read only by the properties

vars == <<personas, archivedPersonas, isDirty, autoSaveEnabled, timer,
          inflight, file, nextId, clock, ret, hist>>

----------------------------------------------------------------------------
\* Bounds of the model.

\* debounceSaveMs option, in clock ticks
DebounceSaveMs == 1
\* calls that change the collections
MaxMutations == 2
\* calls of the adapter's save in a run without the passage of time
MaxSaves == 1
\* calls of the adapter's save in a run with the passage of time
MaxTimedSaves == 2

----------------------------------------------------------------------------
\* JavaScript values.

Undefined == <<>>

Some(v) == <<v>>

\* obj[key]
Get(obj, key) == IF key \in DOMAIN obj THEN Some(obj[key]) ELSE Undefined

\* [...obj[key]] does not throw: undefined is not iterable
Iterable(obj, key) == key \in DOMAIN obj

\* { ...a, ...b }
Spread(a, b) ==
    [k \in DOMAIN a \cup DOMAIN b |-> IF k \in DOMAIN b THEN b[k] ELSE a[k]]

\* the keys of obj among ks
Pick(obj, ks) == [k \in DOMAIN obj \cap ks |-> obj[k]]

Range(s) == {s[i] : i \in 1..Len(s)}

\* JSON.stringify of the entries of an object, in the order of its keys
RECURSIVE StringifyEntries(_, _)
StringifyEntries(entries, i) ==
    IF i > Len(entries) THEN <<>>
    ELSE (IF i > 1 THEN <<",">> ELSE <<>>)
         \o <<entries[i].k, ":", ToString(entries[i].v)>>
         \o StringifyEntries(entries, i + 1)

\* JSON.stringify(value) for the value of `tags` (an array of strings) or of
\* `settings` (an object, held as its entries [k, v] in key order);
\* JSON.stringify(undefined) is undefined
JsonStringify(key, value) ==
    IF value = Undefined THEN Undefined
    ELSE IF key = "settings"
         THEN Some(<<"{">> \o StringifyEntries(value[1], 1) \o <<"}">>)
         ELSE Some(<<"[">> \o value[1] \o <<"]">>)

----------------------------------------------------------------------------
\* Map<string, Persona>

EmptyMap == <<>>

MapKeys(m) == {m[i].k : i \in 1..Len(m)}

MapHas(m, key) == key \in MapKeys(m)

\* Map.get: <<>> when the key is absent
MapGet(m, key) ==
    IF MapHas(m, key)
    THEN Some(m[CHOOSE i \in 1..Len(m) : m[i].k = key].v)
    ELSE Undefined

\* a mutant of MapSet: the entries already in the map are dropped
MapSetOnly(m, key, val) == <<[k |-> key, v |-> val]>>

\* Map.set: an existing key keeps its position
MapSet(m, key, val) ==
    IF MapHas(m, key)
    THEN [i \in 1..Len(m) |-> IF m[i].k = key THEN [k |-> key, v |-> val] ELSE m[i]]
    ELSE Append(m, [k |-> key, v |-> val])

\* Map.delete
MapDelete(m, key) == SelectSeq(m, LAMBDA e : e.k # key)

\* Array.from(map.values())
MapValues(m) == [i \in 1..Len(m) |-> m[i].v]

----------------------------------------------------------------------------
\* The storage adapter: JsonStorageDriver.

\* The content of the storage file, as readFile and JSON.parse see it.
\* readFile raises ENOENT (no file) or another error (EACCES: the file
\* cannot be read), or returns a text: blank, not JSON, or the JSON text of
\* a value.
AbsentFile == [kind |-> "ENOENT"]

UnreadableFile == [kind |-> "EACCES"]

BlankFile == [kind |-> "blank"]

InvalidJsonFile == [kind |-> "invalid"]

JsonFile(value) == [kind |-> "json", value |-> value]

\* JSON values by their type: null, a scalar, an array of items, an object
\* of fields
JsonNull == [type |-> "null"]

JsonScalar == [type |-> "scalar"]

JsonArray(items) == [type |-> "array", items |-> items]

JsonObject(fields) == [type |-> "object", fields |-> fields]

DefaultState == [active |-> EmptyMap, archived |-> EmptyMap]

\* a mutant of ArrayToMapFrom: an entry without an id ends the conversion
\* with nothing loaded
ArrayToMapFromAbort(personasArray, i, map) ==
    LET n == Len(personasArray)
        Sets(j, id) == "id" \in DOMAIN personasArray[j] /\ personasArray[j].id = id
        Final(id) ==
            LET j == CHOOSE j \in i..n :
                         Sets(j, id) /\ \A later \in (j + 1)..n : ~Sets(later, id)
            IN  [k |-> id, v |-> personasArray[j]]
        first == SelectSeq([j \in 1..n |-> j],
                     LAMBDA j : /\ j >= i
                                /\ ~MapHas(map, personasArray[j].id)
                                /\ \A earlier \in i..(j - 1) :
                                       ~Sets(earlier, personasArray[j].id))
    IN  IF \E j \in i..n :
               personasArray[j] = JsonNull \/ "id" \notin DOMAIN personasArray[j]
        THEN EmptyMap
        ELSE [e \in 1..Len(map) |->
                 IF \E j \in i..n : Sets(j, map[e].k) THEN Final(map[e].k)
                 ELSE map[e]]
             \o [e \in 1..Len(first) |-> Final(personasArray[first[e]].id)]

\* the loop of _arrayToMap from entry i on: an entry that is null or has no
\* id is skipped and each other one is set under its id, so that an id keeps
\* the position of its first entry and the value of its last one
ArrayToMapFrom(personasArray, i, map) ==
    LET n == Len(personasArray)
        \* entry j is set under id
        Sets(j, id) ==
            /\ personasArray[j] # JsonNull
            /\ "id" \in DOMAIN personasArray[j]
            /\ personasArray[j].id = id
        \* what the last set of id leaves in the map
        Final(id) ==
            LET j == CHOOSE j \in i..n :
                         Sets(j, id) /\ \A later \in (j + 1)..n : ~Sets(later, id)
            IN  [k |-> id, v |-> personasArray[j]]
        \* the entries that add a key to the map
        first == SelectSeq([j \in 1..n |-> j],
                     LAMBDA j : /\ j >= i
                                /\ personasArray[j] # JsonNull
                                /\ "id" \in DOMAIN personasArray[j]
                                /\ ~MapHas(map, personasArray[j].id)
                                /\ \A earlier \in i..(j - 1) :
                                       ~Sets(earlier, personasArray[j].id))
    IN  [e \in 1..Len(map) |->
            IF \E j \in i..n : Sets(j, map[e].k) THEN Final(map[e].k)
            ELSE map[e]]
        \o [e \in 1..Len(first) |-> Final(personasArray[first[e]].id)]

\* a mutant of ArrayToMap: the first entry of the array is not read
ArrayToMapSkipFirst(personasArray) ==
    IF personasArray = Undefined \/ personasArray[1].type # "array"
    THEN EmptyMap
    ELSE ArrayToMapFrom(personasArray[1].items, 2, EmptyMap)

\* _arrayToMap(personasArray): anything but an array gives the empty map
ArrayToMap(personasArray) ==
    IF personasArray = Undefined \/ personasArray[1].type # "array"
    THEN EmptyMap
    ELSE ArrayToMapFrom(personasArray[1].items, 1, EmptyMap)

\* a mutant of SaveDocument: only the active records are written
SaveDocumentActiveOnly(state) ==
    JsonObject([active |-> JsonArray(MapValues(state.active)),
                archived |-> JsonArray(<<>>)])

\* the document save() serializes, taken when save() is called
SaveDocument(state) ==
    JsonObject([active |-> JsonArray(MapValues(state.active)),
                archived |-> JsonArray(MapValues(state.archived))])

\* fileData[key] of a parsed value whose typeof is 'object': an array has
\* neither key
FileDataGet(fileData, key) ==
    IF fileData.type = "object" THEN Get(fileData.fields, key) ELSE Undefined

\* load(): the try block and its catch; every branch returns a state, the
\* catch returns the default state for every error it sees
LoadOutcome(f) ==
    IF f.kind = "ENOENT" THEN [status |-> "ok", state |-> DefaultState]
    ELSE IF f.kind = "EACCES" THEN [status |-> "ok", state |-> DefaultState]
    ELSE IF f.kind = "blank" THEN [status |-> "ok", state |-> DefaultState]
    ELSE IF f.kind = "invalid" THEN [status |-> "ok", state |-> DefaultState]
    ELSE IF f.value.type \notin {"object", "array"}
         THEN [status |-> "ok", state |-> DefaultState]
         ELSE [status |-> "ok",
               state |-> [active |-> ArrayToMap(FileDataGet(f.value, "active")),
                          archived |-> ArrayToMap(FileDataGet(f.value, "archived"))]]

\* the state load() resolves to
Load(f) == LoadOutcome(f).state

----------------------------------------------------------------------------
\* Names.

CopyTok == " - Copy"

\* a line terminator, which `.` of the copy regex does not match
NewlineTok == "\n"

NumTok(n) == " - " \o ToString(n)

\* the attempts of the copy-name search
MaxCopyAttempts == 1000

\* " - <digits>"
IsNumTok(t) == \E n \in 0..MaxCopyAttempts : t = NumTok(n)

\* baseName.match(copyRegex): the root of "<root> - Copy[ - <n>]"
ActualBaseName(baseName) ==
    LET n == Len(baseName)
        \* (.*) matches root only if root holds no line terminator
        Dots(root) == NewlineTok \notin Range(root)
    IN
    IF n >= 1 /\ baseName[n] = CopyTok /\ Dots(SubSeq(baseName, 1, n - 1))
    THEN SubSeq(baseName, 1, n - 1)
    ELSE IF /\ n >= 2 /\ baseName[n - 1] = CopyTok /\ IsNumTok(baseName[n])
            /\ Dots(SubSeq(baseName, 1, n - 2))
         THEN SubSeq(baseName, 1, n - 2)
         ELSE baseName

\* a mutant of CopyName: the first candidate carries a number too
CopyNameNumbered(actualBaseName, counter) ==
    actualBaseName \o <<CopyTok, NumTok(counter)>>

CopyName(actualBaseName, counter) ==
    IF counter = 1 THEN actualBaseName \o <<CopyTok>>
    ELSE actualBaseName \o <<CopyTok, NumTok(counter)>>

\* a mutant of CopySearch: the search gives up one candidate early
CopySearchShort(actualBaseName, existingNames, counter) ==
    LET Taken(n) == CopyName(actualBaseName, n) \in existingNames
        first == CHOOSE n \in counter..(MaxCopyAttempts - 1) :
                     ~Taken(n) /\ \A m \in counter..(n - 1) : Taken(m)
    IN  IF \A n \in counter..(MaxCopyAttempts - 1) : Taken(n)
        THEN [status |-> "InternalLimitExceeded", name |-> <<>>]
        ELSE [status |-> "ok", name |-> CopyName(actualBaseName, first)]

\* the while (true) loop of _findAvailableCopyName: the candidates are tried
\* in the order of the counter, the first that is no existing name is
\* returned, and the loop throws once the counter has passed the limit
CopySearch(actualBaseName, existingNames, counter) ==
    LET Taken(n) == CopyName(actualBaseName, n) \in existingNames
        first == CHOOSE n \in counter..MaxCopyAttempts :
                     ~Taken(n) /\ \A m \in counter..(n - 1) : Taken(m)
    IN  IF \A n \in counter..MaxCopyAttempts : Taken(n)
        THEN [status |-> "InternalLimitExceeded", name |-> <<>>]
        ELSE [status |-> "ok", name |-> CopyName(actualBaseName, first)]

NamesOf(map) == {map[i].v.name : i \in 1..Len(map)}

FindAvailableCopyName(active, archived, baseName) ==
    CopySearch(ActualBaseName(baseName), NamesOf(active) \cup NamesOf(archived), 1)

----------------------------------------------------------------------------
\* The registry's operations, as functions of the collections.  Each gives
\* the outcome of the call: its status, the returned value, the collections
\* after it, and whether it marked the registry dirty and called
\* _debouncedSave.

ContentFields == {"name", "description", "instructions", "tags", "settings"}

Outcome(status, value, active, archived, mutated) ==
    [status |-> status, value |-> value, personas |-> active,
     archivedPersonas |-> archived, mutated |-> mutated]

\* a mutant of Throw: the registry is marked dirty before the call is rejected
ThrowDirty(status, active, archived) ==
    Outcome(status, Undefined, active, archived, TRUE)

\* throw new Error(...): the call ends before anything was assigned
Throw(status, active, archived) ==
    Outcome(status, Undefined, active, archived, FALSE)

\* a mutant of NameTaken: only the record added last is compared
NameTakenByLast(active, name) ==
    Len(active) > 0 /\ active[Len(active)].v.name = name

\* existingNames.includes(name), over the active records
NameTaken(active, name) == name \in NamesOf(active)

\* a mutant of InitialChangelog: the duplication entry is always pushed
InitialChangelogAlwaysSource(now, originalIdForDuplication) ==
    <<[timestamp |-> now, action |-> "created"],
      [timestamp |-> now, action |-> "duplicated_from",
       details |-> <<"Source ID: ", originalIdForDuplication>>]>>

\* a mutant of InitialChangelog: the duplication entry comes first
InitialChangelogSourceFirst(now, originalIdForDuplication) ==
    (IF originalIdForDuplication # Undefined
     THEN <<[timestamp |-> now, action |-> "duplicated_from",
             details |-> <<"Source ID: ", originalIdForDuplication[1]>>]>>
     ELSE <<>>)
    \o <<[timestamp |-> now, action |-> "created"]>>

\* the id "", the one string id that is falsy
EmptyId == 0

\* the changelog of a new record; `if (originalIdForDuplication)` is false
\* for undefined and for ""
InitialChangelog(now, originalIdForDuplication) ==
    <<[timestamp |-> now, action |-> "created"]>> \o
    (IF originalIdForDuplication # Undefined /\ originalIdForDuplication[1] # EmptyId
     THEN <<[timestamp |-> now, action |-> "duplicated_from",
             details |-> <<"Source ID: ", originalIdForDuplication[1]>>]>>
     ELSE <<>>)

\* a mutant of createPersona: the names of archived records are taken too
createPersonaArchivedNames(active, archived, input, originalIdForDuplication, id, now) ==
    IF NameTaken(active \o archived, input.name)
    THEN Throw("NameConflict", active, archived)
    ELSE LET newPersona ==
                 Spread(Pick(input, ContentFields),
                        [id |-> id, createdAt |-> now, updatedAt |-> now,
                         changelog |-> InitialChangelog(now, originalIdForDuplication)])
         IN  Outcome("ok", Some(newPersona), MapSet(active, id, newPersona),
                     archived, TRUE)

createPersona(active, archived, input, originalIdForDuplication, id, now) ==
    IF NameTaken(active, input.name)
    THEN Throw("NameConflict", active, archived)
    ELSE LET newPersona ==
                 Spread(Pick(input, ContentFields),
                        [id |-> id, createdAt |-> now, updatedAt |-> now,
                         changelog |-> InitialChangelog(now, originalIdForDuplication)])
         IN  Outcome("ok", Some(newPersona), MapSet(active, id, newPersona),
                     archived, TRUE)

listPersonas(active) == MapValues(active)

getPersona(active, id) == MapGet(active, id)

\* a mutant of findByTag: every record with tags matches
findByTagAny(active, tag) ==
    SelectSeq(MapValues(active), LAMBDA persona : "tags" \in DOMAIN persona)

findByTag(active, tag) ==
    SelectSeq(MapValues(active),
              LAMBDA persona : "tags" \in DOMAIN persona /\ tag \in Range(persona.tags))

\* a mutant of MissingStatus: the archived collection is not consulted
MissingStatusNotFound(archived, id, archivedStatus) == "NotFound"

\* the error raised for an id that is not active
MissingStatus(archived, id, archivedStatus) ==
    IF MapHas(archived, id) THEN archivedStatus ELSE "NotFound"

duplicatePersona(active, archived, originalId, id, now) ==
    IF getPersona(active, originalId) = Undefined
    THEN Throw(MissingStatus(archived, originalId, "Archived"), active, archived)
    ELSE LET originalPersona == getPersona(active, originalId)[1]
             found == FindAvailableCopyName(active, archived, originalPersona.name)
         IN  IF found.status # "ok"
             THEN Throw(found.status, active, archived)
             ELSE createPersona(active, archived,
                      Spread(Pick(originalPersona,
                                  {"description", "instructions", "tags", "settings"}),
                             [name |-> found.name]),
                      Some(originalId), id, now)

\* Object.keys(updates), in the order the model writes the keys
KeyOrder ==
    <<"name", "description", "instructions", "tags", "settings",
      "id", "createdAt", "updatedAt", "changelog">>

\* tags and settings of an update are objects of their own, so !== holds
\* for them and the JSON texts decide; the other keys are compared by !==
ChangedFields(persona, updates) ==
    SelectSeq(KeyOrder,
              LAMBDA key : key \in DOMAIN updates
                           /\ IF key \in {"tags", "settings"}
                              THEN JsonStringify(key, Get(persona, key))
                                   # JsonStringify(key, Get(updates, key))
                              ELSE Get(persona, key) # Get(updates, key))

\* a mutant of Overrides: only updatedAt is set by the registry
OverridesUpdatedAtOnly(persona, now, newChangelog) == [updatedAt |-> now]

\* a mutant of Overrides: the changelog is left to ...updates
OverridesNoChangelog(persona, now, newChangelog) ==
    [id |-> persona.id, createdAt |-> persona.createdAt, updatedAt |-> now]

\* the keys written after ...persona, ...updates
Overrides(persona, now, newChangelog) ==
    [id |-> persona.id, createdAt |-> persona.createdAt, updatedAt |-> now,
     changelog |-> newChangelog]

updatePersona(active, archived, id, updates, now) ==
    IF MapGet(active, id) = Undefined
    THEN Throw(MissingStatus(archived, id, "ArchivedImmutable"), active, archived)
    ELSE LET persona == MapGet(active, id)[1]
             changedFields == ChangedFields(persona, updates)
         IN  IF /\ "name" \in DOMAIN updates
                /\ updates.name # <<>>
                /\ updates.name # persona.name
                /\ NameTaken(active, updates.name)
             THEN Throw("NameConflict", active, archived)
             \* [...persona.changelog] of a changelog that is undefined
             ELSE IF ~Iterable(persona, "changelog")
             THEN Throw("TypeError", active, archived)
             ELSE IF Len(changedFields) > 0
                  THEN LET newChangelog ==
                               Append(persona.changelog,
                                      [timestamp |-> now, action |-> "updated",
                                       details |-> <<"Updated fields: ", changedFields>>])
                           updatedPersona ==
                               Spread(Spread(persona, updates),
                                      Overrides(persona, now, newChangelog))
                       IN  Outcome("ok", Some(updatedPersona),
                                   MapSet(active, id, updatedPersona), archived, TRUE)
                  ELSE Outcome("ok", Some(persona), active, archived, FALSE)

\* a mutant of NotArchived: the registry is marked dirty all the same
NotArchivedDirty(active, archived) ==
    Outcome("ok", Some(FALSE), active, archived, TRUE)

\* return false: the id is not in the active map
NotArchived(active, archived) ==
    Outcome("ok", Some(FALSE), active, archived, FALSE)

\* a mutant of archivePersona: the record is not deleted from the active map
archivePersonaKeepsActive(active, archived, id, now) ==
    IF MapGet(active, id) = Undefined
    THEN NotArchived(active, archived)
    ELSE LET personaToArchive == MapGet(active, id)[1]
             archivedPersonaWithLog ==
                 Spread(personaToArchive,
                        [changelog |-> Append(personaToArchive.changelog,
                                              [timestamp |-> now, action |-> "archived"])])
         IN  Outcome("ok", Some(TRUE), active,
                     MapSet(archived, id, archivedPersonaWithLog), TRUE)

\* a mutant of archivePersona: the archived record starts a new changelog
archivePersonaFresh(active, archived, id, now) ==
    IF MapGet(active, id) = Undefined
    THEN NotArchived(active, archived)
    ELSE LET personaToArchive == MapGet(active, id)[1]
             archivedPersonaWithLog ==
                 Spread(personaToArchive,
                        [changelog |-> <<[timestamp |-> now, action |-> "archived"]>>])
         IN  Outcome("ok", Some(TRUE), MapDelete(active, id),
                     MapSet(archived, id, archivedPersonaWithLog), TRUE)

\* a mutant of archivePersona: archiving counts as an update of the record
archivePersonaTouch(active, archived, id, now) ==
    IF MapGet(active, id) = Undefined
    THEN NotArchived(active, archived)
    ELSE LET personaToArchive == MapGet(active, id)[1]
             archivedPersonaWithLog ==
                 Spread(personaToArchive,
                        [updatedAt |-> now,
                         changelog |-> Append(personaToArchive.changelog,
                                              [timestamp |-> now, action |-> "archived"])])
         IN  Outcome("ok", Some(TRUE), MapDelete(active, id),
                     MapSet(archived, id, archivedPersonaWithLog), TRUE)

archivePersona(active, archived, id, now) ==
    IF MapGet(active, id) = Undefined
    THEN NotArchived(active, archived)
    \* [...personaToArchive.changelog] of a changelog that is undefined
    ELSE IF ~Iterable(MapGet(active, id)[1], "changelog")
    THEN Throw("TypeError", active, archived)
    ELSE LET personaToArchive == MapGet(active, id)[1]
             archivedPersonaWithLog ==
                 Spread(personaToArchive,
                        [changelog |-> Append(personaToArchive.changelog,
                                              [timestamp |-> now, action |-> "archived"])])
         IN  Outcome("ok", Some(TRUE), MapDelete(active, id),
                     MapSet(archived, id, archivedPersonaWithLog), TRUE)

----------------------------------------------------------------------------
\* The inputs of the model.

Names == {<<>>, <<"X">>}

TagValues == {"math"}

CreateInputs == {[name |-> <<>>], [name |-> <<"X">>, tags |-> <<"math">>]}

UpdateInputs == {[name |-> n] : n \in Names} \cup {[tags |-> <<"math">>]}

\* The storage file when the registry is created: missing, or written by an
\* earlier run that created 1, archived it, and created 2 under the same name.
InitialFiles ==
    { AbsentFile,
      JsonFile(JsonObject(
        [active |-> JsonArray(
            <<[id |-> 2, name |-> <<"X">>, createdAt |-> 0, updatedAt |-> 0,
               changelog |-> <<[timestamp |-> 0, action |-> "created"]>>]>>),
         archived |-> JsonArray(
            <<[id |-> 1, name |-> <<"X">>, tags |-> <<"math">>,
               createdAt |-> 0, updatedAt |-> 0,
               changelog |-> <<[timestamp |-> 0, action |-> "created"],
                               [timestamp |-> 0, action |-> "archived"]>>]>>)])) }

\* A persona with every content field, as an earlier run stored it.
PersonaX ==
    [id |-> 2, name |-> <<"X">>, description |-> "d", tags |-> <<"math">>,
     settings |-> <<[k |-> "a", v |-> 1], [k |-> "b", v |-> 2]>>,
     createdAt |-> 0, updatedAt |-> 0,
     changelog |-> <<[timestamp |-> 0, action |-> "created"]>>]

\* A record whose id is the string "", which _arrayToMap accepts.
PersonaEmptyId ==
    [id |-> EmptyId, name |-> <<"Y">>, createdAt |-> 0, updatedAt |-> 0,
     changelog |-> <<[timestamp |-> 0, action |-> "created"]>>]

\* An archived copy of X.
PersonaXCopy ==
    [id |-> 1, name |-> <<"X", CopyTok>>, description |-> "d",
     createdAt |-> 0, updatedAt |-> 0,
     changelog |-> <<[timestamp |-> 0, action |-> "created"],
                     [timestamp |-> 0, action |-> "duplicated_from",
                      details |-> <<"Source ID: ", 2>>],
                     [timestamp |-> 0, action |-> "archived"]>>]

\* The storage files of the runs that only call the registry.
CallsFiles ==
    { JsonFile(JsonObject([active |-> JsonArray(<<PersonaX>>),
                           archived |-> JsonArray(<<PersonaXCopy>>)])),
      JsonFile(JsonObject([active |-> JsonArray(<<PersonaX, PersonaEmptyId>>),
                           archived |-> JsonArray(<<PersonaXCopy>>)])) }

\* An archived record with the name and the tag of X.
PersonaXOld ==
    [id |-> 1, name |-> <<"X">>, tags |-> <<"math">>,
     createdAt |-> 0, updatedAt |-> 0,
     changelog |-> <<[timestamp |-> 0, action |-> "created"],
                     [timestamp |-> 0, action |-> "archived"]>>]

\* The storage files of the runs with queries: missing, or a document with a
\* tagged and an untagged active record and a tagged archived record.
QueryFiles ==
    { AbsentFile,
      JsonFile(JsonObject([active |-> JsonArray(<<PersonaX, PersonaEmptyId>>),
                           archived |-> JsonArray(<<PersonaXOld>>)])) }

\* The tags that findByTag is called with: one that records carry and one
\* that no record carries.
QueryTags == {"math", "art"}

\* The names of the runs about names: those of the three stored records.
StoredNames == {<<"X">>, <<"Y">>, <<"X", CopyTok>>}

\* Copy n of X, as an earlier run stored it.
CopyRecord(n) ==
    [id |-> PersonaX.id + n, name |-> CopyName(PersonaX.name, n),
     createdAt |-> 0, updatedAt |-> 0,
     changelog |-> <<[timestamp |-> 0, action |-> "created"]>>]

\* The copies a..b of X.
CopiesFrom(a, b) == [i \in 1..(b - a + 1) |-> CopyRecord(a + i - 1)]

\* The storage files of the runs at the limit of the copy-name search: X
\* and every copy name that the search tries but the last, and with the last
\* either free or the name of an archived record.
LimitFiles ==
    { JsonFile(JsonObject(
        [active |-> JsonArray(<<PersonaX>> \o CopiesFrom(1, MaxCopyAttempts - 1)),
         archived |-> JsonArray(<<>>)])),
      JsonFile(JsonObject(
        [active |-> JsonArray(<<PersonaX>> \o CopiesFrom(1, MaxCopyAttempts - 1)),
         archived |-> JsonArray(<<CopyRecord(MaxCopyAttempts)>>)])) }

\* The ids those runs call with: X, its first and its last copies.
LimitIds ==
    {PersonaX.id, CopyRecord(1).id, CopyRecord(MaxCopyAttempts - 1).id,
     CopyRecord(MaxCopyAttempts).id}

\* Records that an earlier revision wrote, before records had a changelog.
PersonaXLegacy ==
    [id |-> 2, name |-> <<"X">>, description |-> "d", tags |-> <<"math">>,
     createdAt |-> 0, updatedAt |-> 0]

PersonaYLegacy == [id |-> 1, name |-> <<"Y">>, createdAt |-> 0, updatedAt |-> 0]

\* The storage files of the runs on older documents: every record lacks the
\* changelog, or one of them has it.
LegacyFiles ==
    { JsonFile(JsonObject([active |-> JsonArray(<<PersonaXLegacy, PersonaYLegacy>>),
                           archived |-> JsonArray(<<>>)])),
      JsonFile(JsonObject([active |-> JsonArray(<<PersonaXLegacy>>),
                           archived |-> JsonArray(<<PersonaYLegacy>>)])),
      JsonFile(JsonObject([active |-> JsonArray(<<PersonaXLegacy, PersonaEmptyId>>),
                           archived |-> JsonArray(<<>>)])) }

\* An entry that has a name and no id.
EntryWithoutId == [name |-> <<"No ID">>]

\* The storage files of the runs that start from any kind of file: no file,
\* an unreadable file, a blank text, a text that is not JSON, JSON that is
\* not an object, an array of records (no `active`/`archived` keys), an
\* object without the two keys or with values that are not arrays, an
\* object with one of the two arrays, and a document some of whose entries
\* are null or have no id.
LoadFiles ==
    { AbsentFile, UnreadableFile, BlankFile, InvalidJsonFile,
      JsonFile(JsonNull),
      JsonFile(JsonScalar),
      JsonFile(JsonArray(<<PersonaX>>)),
      JsonFile(JsonObject([other |-> JsonArray(<<>>)])),
      JsonFile(JsonObject([active |-> JsonScalar, archived |-> JsonNull])),
      JsonFile(JsonObject([active |-> JsonArray(<<PersonaX>>)])),
      JsonFile(JsonObject(
        [active |-> JsonArray(<<EntryWithoutId, PersonaX, JsonNull, PersonaEmptyId>>),
         archived |-> JsonArray(<<PersonaXCopy, EntryWithoutId>>)])) }

\* createPersona inputs of those runs: the empty name, and a name with a
\* line terminator in front of its copy suffix
CallCreateInputs == {[name |-> <<>>], [name |-> <<"N", NewlineTok, CopyTok>>]}

\* A value no record holds under a registry-owned key.
CallerValue == 9

\* updatePersona partial updates of those runs, read at run time: the keys
\* that the parameter type leaves out can be there all the same
PartialUpdates ==
    { [name |-> <<"X">>],
      [name |-> <<>>],
      [description |-> "d", tags |-> <<"math">>,
       settings |-> <<[k |-> "a", v |-> 1], [k |-> "b", v |-> 2]>>],
      [settings |-> <<[k |-> "b", v |-> 2], [k |-> "a", v |-> 1]>>],
      [description |-> "e"],
      [id |-> CallerValue],
      [description |-> "e", id |-> CallerValue, createdAt |-> CallerValue,
       updatedAt |-> CallerValue, changelog |-> <<>>] }

\* uuidv4() never repeats an id: the first id it hands out to this run
FirstId(state) ==
    LET ids == MapKeys(state.active) \cup MapKeys(state.archived)
    IN  IF ids = {} THEN 1 ELSE 1 + CHOOSE m \in ids : \A k \in ids : k <= m

----------------------------------------------------------------------------
\* The state machine.

State == [active |-> personas, archived |-> archivedPersonas]

\* a mutant of DebouncedSave: a wait that has begun is not restarted
DebouncedSaveKeep(t) == IF t >= 0 THEN t ELSE DebounceSaveMs

\* _debouncedSave(): lodash debounce (trailing) restarts the wait
DebouncedSave(t) == DebounceSaveMs

\* the history after a call with outcome r
HistAfterCall(r) ==
    [hist EXCEPT
        !.usedIds = @ \cup MapKeys(r.personas) \cup MapKeys(r.archivedPersonas),
        !.mutated = @ \/ r.mutated,
        !.mutations = IF r.mutated THEN @ + 1 ELSE @,
        !.unsaved = @ \/ r.mutated,
        !.burstSaves = IF r.mutated THEN 0 ELSE @,
        !.burstDoc = IF r.mutated THEN <<>> ELSE @,
        !.flushCovered = IF r.mutated THEN FALSE ELSE @,
        !.autoAfterFlush = IF r.mutated THEN 0 ELSE @,
        !.cancelled = IF r.mutated THEN FALSE ELSE @,
        !.mutatedAt = IF r.mutated THEN clock ELSE @,
        !.createdIds = @ \cup ((MapKeys(r.personas) \cup MapKeys(r.archivedPersonas))
                                 \ hist.usedIds)]

\* the saves in flight after a call with outcome r: a mutation makes their
\* documents stale
InflightAfterCall(r) ==
    [i \in 1..Len(inflight) |->
        [inflight[i] EXCEPT !.stale = @ \/ r.mutated]]

\* the part of a call common to the four mutating operations
Apply(op, r) ==
    /\ r.mutated => hist.mutations < MaxMutations
    /\ personas' = r.personas
    /\ archivedPersonas' = r.archivedPersonas
    /\ isDirty' = (IF r.mutated THEN TRUE ELSE isDirty)
    /\ timer' = (IF r.mutated THEN DebouncedSave(timer) ELSE timer)
    /\ inflight' = InflightAfterCall(r)
    /\ ret' = [op |-> op, status |-> r.status, value |-> r.value]
    /\ hist' = HistAfterCall(r)
    /\ UNCHANGED <<autoSaveEnabled, file, clock>>

\* PersonaRegistry.create on one of the files, at time now
InitAt(files, now) ==
    /\ file \in files
    /\ personas = Load(file).active
    /\ archivedPersonas = Load(file).archived
    /\ isDirty = FALSE
    /\ autoSaveEnabled \in BOOLEAN
    /\ timer = -1
    /\ inflight = <<>>
    /\ nextId = FirstId(Load(file))
    /\ clock = now
    /\ ret = [op |-> "create", status |-> LoadOutcome(file).status,
              value |-> <<>>]
    /\ hist = [usedIds |-> MapKeys(personas) \cup MapKeys(archivedPersonas),
               archivedOk |-> {},
               mutated |-> FALSE, mutations |-> 0, saves |-> 0, unsaved |-> FALSE,
               burstSaves |-> 0, burstDoc |-> <<>>,
               flushCovered |-> FALSE, autoAfterFlush |-> 0,
               cancelled |-> FALSE, failedAuto |-> FALSE, mutatedAt |-> -1,
               archivedFrom |-> EmptyMap, createdIds |-> {}]

Init == InitAt(InitialFiles, 0)

CreatePersona(input) ==
    LET r == createPersona(personas, archivedPersonas, input, Undefined, nextId, clock)
    IN  /\ nextId' = (IF r.status = "ok" THEN nextId + 1 ELSE nextId)
        /\ Apply("createPersona", r)

DuplicatePersona(originalId) ==
    LET r == duplicatePersona(personas, archivedPersonas, originalId, nextId, clock)
    IN  /\ nextId' = (IF r.status = "ok" THEN nextId + 1 ELSE nextId)
        /\ Apply("duplicatePersona", r)

UpdatePersona(id, updates) ==
    LET r == updatePersona(personas, archivedPersonas, id, updates, clock)
    IN  /\ Apply("updatePersona", r)
        /\ UNCHANGED nextId

ArchivePersona(id) ==
    LET r == archivePersona(personas, archivedPersonas, id, clock)
    IN  /\ r.mutated => hist.mutations < MaxMutations
        /\ personas' = r.personas
        /\ archivedPersonas' = r.archivedPersonas
        /\ isDirty' = (IF r.mutated THEN TRUE ELSE isDirty)
        /\ timer' = (IF r.mutated THEN DebouncedSave(timer) ELSE timer)
        /\ inflight' = InflightAfterCall(r)
        /\ ret' = [op |-> "archivePersona", status |-> r.status,
                   value |-> r.value]
        /\ hist' = [HistAfterCall(r) EXCEPT
                       !.archivedOk = IF r.value = Some(TRUE) THEN @ \cup {id} ELSE @,
                       !.archivedFrom = IF r.value = Some(TRUE)
                                        THEN MapSet(@, id, MapGet(personas, id)[1])
                                        ELSE @]
        /\ UNCHANGED <<autoSaveEnabled, file, clock, nextId>>

\* storageDriver.save(stateToSave) up to its first await: the document is
\* serialized now and written later
SaveCall(origin) ==
    [origin |-> origin, doc |-> SaveDocument(State), stale |-> FALSE,
     archivedOk |-> hist.archivedOk]

\* a mutant of Flush: save is invoked only when the registry is dirty
FlushIfDirty(maxSaves) ==
    /\ hist.saves < maxSaves
    /\ inflight' = (IF isDirty THEN Append(inflight, SaveCall("flush"))
                               ELSE inflight)
    /\ ret' = [op |-> "flush", status |-> "pending", value |-> <<>>]
    /\ hist' = [hist EXCEPT !.saves = @ + 1,
                            !.burstSaves = IF @ < 2 THEN @ + 1 ELSE @,
                            !.burstDoc = SaveDocument(State),
                            !.flushCovered = hist.mutated /\ timer > 0,
                            !.autoAfterFlush = 0]
    /\ UNCHANGED <<personas, archivedPersonas, isDirty, autoSaveEnabled, timer,
                   file, nextId, clock>>

\* flush() up to `await this.storageDriver.save(stateToSave)`
Flush(maxSaves) ==
    /\ hist.saves < maxSaves
    /\ inflight' = Append(inflight, SaveCall("flush"))
    /\ ret' = [op |-> "flush", status |-> "pending", value |-> <<>>]
    /\ hist' = [hist EXCEPT !.saves = @ + 1,
                            !.burstSaves = IF @ < 2 THEN @ + 1 ELSE @,
                            !.burstDoc = SaveDocument(State),
                            !.flushCovered = hist.mutated /\ timer > 0,
                            !.autoAfterFlush = 0]
    /\ UNCHANGED <<personas, archivedPersonas, isDirty, autoSaveEnabled, timer,
                   file, nextId, clock>>

\* a mutant of ShouldAutoSave: the autoSaveEnabled option is not read
ShouldAutoSaveDirty == isDirty

\* the condition under which _saveIfDirty saves
ShouldAutoSave == autoSaveEnabled /\ isDirty

\* the debounce timer expires and lodash invokes _saveIfDirty, which runs up
\* to `await this.storageDriver.save(stateToSave)`
TimerFire(maxSaves) ==
    /\ timer = 0
    /\ timer' = -1
    /\ IF ShouldAutoSave
       THEN /\ hist.saves < maxSaves
            /\ inflight' = Append(inflight, SaveCall("auto"))
            /\ ret' = [op |-> "timer", status |-> "pending",
                       value |-> <<>>]
            /\ hist' = [hist EXCEPT
                           !.saves = @ + 1,
                           !.burstSaves = IF @ < 2 THEN @ + 1 ELSE @,
                           !.burstDoc = SaveDocument(State),
                           !.autoAfterFlush = IF @ < 2 THEN @ + 1 ELSE @]
       ELSE /\ ret' = [op |-> "timer", status |-> "ok",
                       value |-> <<>>]
            /\ UNCHANGED <<inflight, hist>>
    /\ UNCHANGED <<personas, archivedPersonas, isDirty, autoSaveEnabled, file,
                   nextId, clock>>

Remove(s, i) == SubSeq(s, 1, i - 1) \o SubSeq(s, i + 1, Len(s))

\* the write of save i completes; flush() or _saveIfDirty resumes after its
\* await and clears the dirty flag
SaveSucceed(i) ==
    /\ i \in 1..Len(inflight)
    /\ file' = JsonFile(inflight[i].doc)
    /\ inflight' = Remove(inflight, i)
    /\ isDirty' = FALSE
    /\ ret' = [op |-> "saveSucceeded", status |-> "ok",
               value |-> <<>>]
    /\ hist' = [hist EXCEPT !.unsaved = IF inflight[i].stale THEN @ ELSE FALSE]
    /\ UNCHANGED <<personas, archivedPersonas, autoSaveEnabled, timer, nextId,
                   clock>>

\* a mutant of SaveFail: the dirty flag is cleared as after a success
SaveFailClearsDirty(i) ==
    /\ i \in 1..Len(inflight)
    /\ inflight' = Remove(inflight, i)
    /\ isDirty' = FALSE
    /\ ret' = [op |-> "saveFailed", status |-> (IF inflight[i].origin = "flush"
                           THEN "StorageFailure" ELSE "logged"),
               value |-> <<>>]
    /\ hist' = [hist EXCEPT !.failedAuto = @ \/ inflight[i].origin = "auto"]
    /\ UNCHANGED <<personas, archivedPersonas, autoSaveEnabled, timer,
                   file, nextId, clock>>

\* a mutant of SaveFail: flush() swallows the error as _saveIfDirty does
SaveFailSilent(i) ==
    /\ i \in 1..Len(inflight)
    /\ inflight' = Remove(inflight, i)
    /\ ret' = [op |-> "saveFailed", status |-> "logged", value |-> <<>>]
    /\ hist' = [hist EXCEPT !.failedAuto = @ \/ inflight[i].origin = "auto"]
    /\ UNCHANGED <<personas, archivedPersonas, isDirty, autoSaveEnabled, timer,
                   file, nextId, clock>>

\* the write of save i raises: flush() rethrows to its caller, _saveIfDirty
\* logs the error; neither touches the dirty flag
SaveFail(i) ==
    /\ i \in 1..Len(inflight)
    /\ inflight' = Remove(inflight, i)
    /\ ret' = [op |-> "saveFailed", status |-> (IF inflight[i].origin = "flush"
                           THEN "StorageFailure" ELSE "logged"),
               value |-> <<>>]
    /\ hist' = [hist EXCEPT !.failedAuto = @ \/ inflight[i].origin = "auto"]
    /\ UNCHANGED <<personas, archivedPersonas, isDirty, autoSaveEnabled, timer,
                   file, nextId, clock>>

\* a mutant of CancelPendingSave: the timer is left armed
CancelPendingSaveKeepsTimer ==
    /\ timer' = timer
    /\ ret' = [op |-> "cancelPendingSave", status |-> "ok",
               value |-> <<>>]
    /\ hist' = [hist EXCEPT !.cancelled = @ \/ timer # -1]
    /\ UNCHANGED <<personas, archivedPersonas, isDirty, autoSaveEnabled,
                   inflight, file, nextId, clock>>

\* cancelPendingSave(): lodash cancel clears the timer
CancelPendingSave ==
    /\ timer' = -1
    /\ ret' = [op |-> "cancelPendingSave", status |-> "ok",
               value |-> <<>>]
    /\ hist' = [hist EXCEPT !.cancelled = @ \/ timer # -1]
    /\ UNCHANGED <<personas, archivedPersonas, isDirty, autoSaveEnabled,
                   inflight, file, nextId, clock>>

\* the part of a call common to the three queries
Query(op, value) ==
    /\ ret' = [op |-> op, status |-> "ok", value |-> value]
    /\ UNCHANGED <<personas, archivedPersonas, isDirty, autoSaveEnabled, timer,
                   inflight, file, nextId, clock, hist>>

ListPersonas == Query("listPersonas", Some(listPersonas(personas)))

GetPersona(id) == Query("getPersona", getPersona(personas, id))

FindByTag(tag) == Query("findByTag", Some(findByTag(personas, tag)))

\* one tick of the debounce wait passes
Tick ==
    /\ timer > 0
    /\ clock' = clock + 1
    /\ timer' = timer - 1
    /\ ret' = [op |-> "tick", status |-> "ok", value |-> <<>>]
    /\ UNCHANGED <<personas, archivedPersonas, isDirty, autoSaveEnabled,
                   inflight, file, nextId, hist>>

\* a call of one of the four mutating operations
Mutate ==
    \/ \E input \in CreateInputs : CreatePersona(input)
    \/ \E id \in 1..nextId : DuplicatePersona(id)
    \/ \E id \in 1..nextId, updates \in UpdateInputs : UpdatePersona(id, updates)
    \/ \E id \in 1..nextId : ArchivePersona(id)

\* Calls and saves while the debounce wait has not run out.
Next ==
    \/ Mutate
    \/ Flush(MaxSaves)
    \/ \E i \in 1..Len(inflight) : SaveSucceed(i)
    \/ \E i \in 1..Len(inflight) : SaveFail(i)
    \/ CancelPendingSave

Spec == Init /\ [][Next]_vars

\* a registry created with the autoSaveEnabled option on
AutoSaveInit == Init /\ autoSaveEnabled

\* the calls of the runs with the passage of time
TimedMutate ==
    \/ \E input \in CreateInputs : CreatePersona(input)
    \/ \E id \in 1..nextId : ArchivePersona(id)

\* Auto-save alone: mutations and the debounce timer, no flush() and no
\* cancelPendingSave().
AutoSaveNext ==
    \/ TimedMutate
    \/ Tick
    \/ TimerFire(MaxTimedSaves)
    \/ \E i \in 1..Len(inflight) : SaveSucceed(i)
    \/ \E i \in 1..Len(inflight) : SaveFail(i)

AutoSaveSpec == AutoSaveInit /\ [][AutoSaveNext]_vars

\* A storage whose writes always succeed, and no cancelPendingSave().
ReliableNext ==
    \/ TimedMutate
    \/ Flush(MaxTimedSaves)
    \/ Tick
    \/ TimerFire(MaxTimedSaves)
    \/ \E i \in 1..Len(inflight) : SaveSucceed(i)

ReliableSpec == AutoSaveInit /\ [][ReliableNext]_vars

\* Mutations, flush(), the debounce timer, and a storage whose writes
\* succeed or raise.
StorageNext ==
    \/ TimedMutate
    \/ Flush(MaxTimedSaves)
    \/ Tick
    \/ TimerFire(MaxTimedSaves)
    \/ \E i \in 1..Len(inflight) : SaveSucceed(i)
    \/ \E i \in 1..Len(inflight) : SaveFail(i)

\* a registry created with the autoSaveEnabled option off
ManualInit == Init /\ ~autoSaveEnabled

ManualSpec == ManualInit /\ [][StorageNext]_vars

UnreliableSpec == AutoSaveInit /\ [][StorageNext]_vars

\* a registry created on any kind of storage file
LoadInit == InitAt(LoadFiles, 1) /\ autoSaveEnabled

\* Creation on any kind of file, followed by calls.
LoadNext ==
    \/ \E input \in CreateInputs : CreatePersona(input)
    \/ \E id \in 0..nextId : ArchivePersona(id)

LoadSpec == LoadInit /\ [][LoadNext]_vars

\* a registry created with auto-save on, on the files of the runs with queries
QueryInit == InitAt(QueryFiles, 1) /\ autoSaveEnabled

\* Mutations and queries while the debounce wait has not run out.
QueryNext ==
    \/ \E input \in CreateInputs : CreatePersona(input)
    \/ \E id \in 0..nextId : ArchivePersona(id)
    \/ ListPersonas
    \/ \E id \in 0..nextId : GetPersona(id)
    \/ \E tag \in QueryTags : FindByTag(tag)

QuerySpec == QueryInit /\ [][QueryNext]_vars

\* Auto-save with the four mutating operations: calls, the debounce timer
\* and saves that succeed.
DebounceNext ==
    \/ Mutate
    \/ Tick
    \/ TimerFire(MaxTimedSaves)
    \/ \E i \in 1..Len(inflight) : SaveSucceed(i)

DebounceSpec == AutoSaveInit /\ [][DebounceNext]_vars

\* Auto-save with cancelPendingSave(): mutations, the debounce timer and
\* calls that cancel it.
CancelNext ==
    \/ TimedMutate
    \/ CancelPendingSave
    \/ Tick
    \/ TimerFire(MaxTimedSaves)
    \/ \E i \in 1..Len(inflight) : SaveSucceed(i)

CancelSpec == AutoSaveInit /\ [][CancelNext]_vars

\* a registry created, some time after they were written, on the files of
\* the runs that only call it; no timer expires in these runs, so the
\* autoSaveEnabled option is left at its default
CallsInit == InitAt(CallsFiles, 1) /\ autoSaveEnabled

\* Calls of the four mutating operations alone, with every kind of input.
CallsNext ==
    \/ \E input \in CallCreateInputs : CreatePersona(input)
    \/ \E id \in 0..nextId : DuplicatePersona(id)
    \/ \E id \in 0..nextId, updates \in PartialUpdates : UpdatePersona(id, updates)
    \/ \E id \in 0..nextId : ArchivePersona(id)

CallsSpec == CallsInit /\ [][CallsNext]_vars

----------------------------------------------------------------------------
\* The stdio server: each request is handled by a process of its own, which
\* creates a registry on the storage file, calls it, and exits.

\* JSON-RPC error codes
METHOD_NOT_FOUND == -32601

INVALID_PARAMS == -32602

INTERNAL_ERROR == -32603

\* the codes that persona.update gives to the errors of updatePersona
PersonaMissingCode == -32001

NameCollisionCode == -32002

ServerMethods ==
    {"persona.create", "persona.list", "persona.get", "persona.findByTag",
     "persona.duplicate", "persona.flush", "persona.update", "persona.archive"}

\* the test of request.params in each case of the switch; params are
\* Undefined or Some(value), and persona.list and persona.flush read none
ParamsValid(method, params) ==
    method \in {"persona.list", "persona.flush"} \/ params # Undefined

\* validUpdates: the content fields of updates
ValidUpdates(updates) == Pick(updates, ContentFields)

\* the case of the switch for the method, up to its flush
ServerCall(method, params, active, archived, id, now) ==
    IF method \notin ServerMethods THEN Throw("MethodNotFound", active, archived)
    ELSE IF ~ParamsValid(method, params) THEN Throw("InvalidParams", active, archived)
    ELSE CASE method = "persona.create" ->
                createPersona(active, archived, params[1], Undefined, id, now)
           [] method = "persona.list" ->
                Outcome("ok", Some(listPersonas(active)), active, archived, FALSE)
           [] method = "persona.get" ->
                Outcome("ok", getPersona(active, params[1]), active, archived, FALSE)
           [] method = "persona.findByTag" ->
                Outcome("ok", Some(findByTag(active, params[1])), active, archived, FALSE)
           [] method = "persona.duplicate" ->
                duplicatePersona(active, archived, params[1], id, now)
           [] method = "persona.flush" ->
                Outcome("ok", Some([success |-> TRUE, message |-> "Flush completed"]),
                        active, archived, FALSE)
           [] method = "persona.update" ->
                updatePersona(active, archived, params[1].id,
                              ValidUpdates(params[1].updates), now)
           [] method = "persona.archive" ->
                LET r == archivePersona(active, archived, params[1], now)
                IN  IF r.status = "ok"
                    THEN [r EXCEPT !.value = Some([success |-> r.value[1]])]
                    ELSE r

\* a mutant of Flushes: persona.archive answers without a flush
FlushesNoArchive(method, r) ==
    /\ r.status = "ok"
    /\ method \in {"persona.create", "persona.duplicate", "persona.flush",
                   "persona.update"}

\* the case of the switch calls registry.flush() after its registry call
Flushes(method, r) ==
    /\ r.status = "ok"
    /\ \/ method \in {"persona.create", "persona.duplicate", "persona.flush",
                      "persona.update"}
       \/ method = "persona.archive" /\ r.value = Some([success |-> TRUE])

\* the code of the error response
ErrorCode(method, status) ==
    CASE status = "MethodNotFound" -> METHOD_NOT_FOUND
      [] status = "InvalidParams" -> INVALID_PARAMS
      [] method = "persona.update" /\ status \in {"NotFound", "ArchivedImmutable"} ->
            PersonaMissingCode
      [] method = "persona.update" /\ status = "NameConflict" -> NameCollisionCode
      [] OTHER -> INTERNAL_ERROR

\* sendResponse: the line written to stdout
Response(method, status, value) ==
    IF status = "ok"
    THEN [op |-> method, status |-> "ok", value |-> value]
    ELSE [op |-> method, status |-> status, value |-> Undefined,
          code |-> ErrorCode(method, status)]

\* the process of the earlier request has exited
Exited == ret.op # "create" /\ ret.status # "flushing"

\* a new process: PersonaRegistry.create on the storage file
ServerStart ==
    /\ Exited
    /\ personas' = Load(file).active
    /\ archivedPersonas' = Load(file).archived
    /\ isDirty' = FALSE
    /\ timer' = -1
    /\ inflight' = <<>>
    /\ ret' = [op |-> "create", status |-> LoadOutcome(file).status,
               value |-> <<>>]
    /\ hist' = [hist EXCEPT
                   !.usedIds = @ \cup MapKeys(personas') \cup MapKeys(archivedPersonas'),
                   !.archivedOk = {}, !.mutated = FALSE, !.unsaved = FALSE,
                   !.burstSaves = 0, !.burstDoc = <<>>, !.flushCovered = FALSE,
                   !.autoAfterFlush = 0, !.cancelled = FALSE, !.mutatedAt = -1,
                   !.archivedFrom = EmptyMap, !.createdIds = {}]
    /\ UNCHANGED <<autoSaveEnabled, file, nextId, clock>>

\* processRequest from the switch on: the registry call and then either the
\* call of flush(), up to the await of the adapter's save, or the response
\* and the finally block
ServerRequest(method, params) ==
    LET r == ServerCall(method, params, personas, archivedPersonas, nextId, clock)
        created == method \in {"persona.create", "persona.duplicate"} /\ r.status = "ok"
    IN  /\ ret.op = "create"
        /\ r.mutated => hist.mutations < MaxMutations
        /\ personas' = r.personas
        /\ archivedPersonas' = r.archivedPersonas
        /\ isDirty' = (IF r.mutated THEN TRUE ELSE isDirty)
        /\ nextId' = (IF created THEN nextId + 1 ELSE nextId)
        /\ hist' = HistAfterCall(r)
        /\ IF Flushes(method, r)
           THEN /\ timer' = (IF r.mutated THEN DebouncedSave(timer) ELSE timer)
                /\ inflight' =
                      <<[origin |-> "flush",
                         doc |-> SaveDocument([active |-> r.personas,
                                               archived |-> r.archivedPersonas]),
                         stale |-> FALSE, archivedOk |-> hist.archivedOk]>>
                /\ ret' = [op |-> method, status |-> "flushing", value |-> r.value]
           ELSE /\ timer' = -1
                /\ inflight' = <<>>
                /\ ret' = Response(method, r.status, r.value)
        /\ UNCHANGED <<autoSaveEnabled, file, clock>>

\* the write of the flush is done: flush() clears the dirty flag, the success
\* response is written and the finally block cancels the timer
ServerFlushResolved ==
    /\ ret.status = "flushing"
    /\ file' = JsonFile(inflight[1].doc)
    /\ inflight' = <<>>
    /\ isDirty' = FALSE
    /\ timer' = -1
    /\ ret' = Response(ret.op, "ok", ret.value)
    /\ hist' = [hist EXCEPT !.unsaved = FALSE]
    /\ UNCHANGED <<personas, archivedPersonas, autoSaveEnabled, nextId, clock>>

\* the write of the flush raises: flush() rethrows and the catch block
\* writes the error response
ServerFlushRejected ==
    /\ ret.status = "flushing"
    /\ inflight' = <<>>
    /\ timer' = -1
    /\ ret' = Response(ret.op, "StorageFailure", Undefined)
    /\ UNCHANGED <<personas, archivedPersonas, isDirty, autoSaveEnabled, file,
                   nextId, clock, hist>>

\* The storage file when the first request comes: missing, or a document
\* with records that have a changelog, or with one that has none.
ServerFiles ==
    { AbsentFile,
      JsonFile(JsonObject([active |-> JsonArray(<<PersonaX>>),
                           archived |-> JsonArray(<<PersonaXCopy>>)])),
      JsonFile(JsonObject([active |-> JsonArray(<<PersonaYLegacy>>),
                           archived |-> JsonArray(<<>>)])) }

\* the updates of persona.update: a new name, a new description, and a key
\* that validUpdates leaves out
ServerUpdates == {[name |-> <<"Y">>], [description |-> "e"], [id |-> CallerValue]}

\* a method that the switch does not know
UnknownMethod == "persona.delete"

\* The requests: each method with params, and without.
ServerRequests ==
    [method : ServerMethods \cup {UnknownMethod}, params : {Undefined}]
    \cup {[method |-> "persona.create", params |-> Some(input)] :
              input \in CreateInputs}
    \cup {[method |-> "persona.findByTag", params |-> Some(tag)] : tag \in QueryTags}
    \cup {[method |-> m, params |-> Some(id)] :
              m \in {"persona.get", "persona.duplicate", "persona.archive"},
              id \in 0..nextId}
    \cup {[method |-> "persona.update",
           params |-> Some([id |-> id, updates |-> updates])] :
              id \in 0..nextId, updates \in ServerUpdates}

\* the first process has created its registry, with auto-save off
ServerInit == InitAt(ServerFiles, 1) /\ ~autoSaveEnabled

ServerNext ==
    \/ ServerStart
    \/ \E request \in ServerRequests : ServerRequest(request.method, request.params)
    \/ ServerFlushResolved
    \/ ServerFlushRejected

ServerSpec == ServerInit /\ [][ServerNext]_vars

\* a registry created on the files at the limit of the copy-name search
LimitInit == InitAt(LimitFiles, 1) /\ autoSaveEnabled

\* duplicatePersona and archivePersona at the limit of the copy-name search.
LimitNext ==
    \/ \E id \in LimitIds : DuplicatePersona(id)
    \/ \E id \in LimitIds : ArchivePersona(id)

LimitSpec == LimitInit /\ [][LimitNext]_vars

\* a registry created on the files that an earlier revision wrote
LegacyInit == InitAt(LegacyFiles, 1) /\ autoSaveEnabled

\* Calls of the four mutating operations on the records of older documents
\* and on those the run creates.
LegacyNext ==
    \/ \E input \in CreateInputs : CreatePersona(input)
    \/ \E id \in 0..nextId : DuplicatePersona(id)
    \/ \E id \in 0..nextId, updates \in UpdateInputs : UpdatePersona(id, updates)
    \/ \E id \in 0..nextId : ArchivePersona(id)

LegacySpec == LegacyInit /\ [][LegacyNext]_vars

\* Calls that carry the names of stored records, active or archived.
NamesNext ==
    \/ \E name \in StoredNames : CreatePersona([name |-> name])
    \/ \E id \in 0..nextId, name \in StoredNames :
          UpdatePersona(id, [name |-> name])
    \/ \E id \in 0..nextId : ArchivePersona(id)

NamesSpec == CallsInit /\ [][NamesNext]_vars

----------------------------------------------------------------------------
\* The claims.

DocIds(personasArray) == {personasArray[i].id : i \in 1..Len(personasArray)}

\* C1: no two records of the active collection have the same name, whatever
\* calls of createPersona, updatePersona, duplicatePersona and archivePersona
\* were made and whatever names they carried, the empty string included.
ClaimC1 ==
    \A i, j \in 1..Len(personas) :
        i # j => personas[i].v.name # personas[j].v.name

\* C2: when the dirty flag is clear and no adapter save is in flight, the
\* state last written by a successful save (the loaded state if there was
\* none) is the state in memory.
ClaimC2 ==
    (~isDirty /\ inflight = <<>>) => Load(file) = State

\* C3: with auto-save on and neither flush() nor cancelPendingSave() called,
\* the adapter's save is not called while the debounce wait after the last
\* mutation runs, and once the wait has run out it has been called exactly
\* once since that mutation, with the state that mutation left in memory.
ClaimC3 ==
    hist.mutated =>
        /\ timer # -1 => hist.burstSaves = 0
        /\ timer = -1 => /\ hist.burstSaves = 1
                         /\ hist.burstDoc = SaveDocument(State)

\* C4: after a flush() called while the timer armed by the last mutation was
\* still running, and with writes that succeed, the expiry of that timer
\* does not call the adapter's save: the flush's save stays the only one.
ClaimC4 ==
    hist.flushCovered => hist.autoAfterFlush = 0

\* C5: with auto-save on, writes that succeed and no cancelPendingSave(),
\* once no timer is armed and no save is in flight every mutation has been
\* taken to the storage by a completed save.
ClaimC5 ==
    (timer = -1 /\ inflight = <<>>) => ~hist.unsaved

\* C6: a call of createPersona, updatePersona or duplicatePersona that fails
\* leaves the active collection, the archived collection and the dirty flag
\* as they were and does not arm the debounce timer.
ClaimC6 ==
    [][(/\ ret'.op \in {"createPersona", "updatePersona", "duplicatePersona"}
        /\ ret'.status # "ok")
       => UNCHANGED <<personas, archivedPersonas, isDirty, timer>>]_vars

WitnessC6 ==
    /\ ret.op = "updatePersona"
    /\ ret.status = "NameConflict"
    /\ ~isDirty

\* C7: createPersona with the name of a record that is in the active
\* collection is rejected with NameConflict, and the number of active
\* records is the same after the call.
ClaimC7 ==
    [][\A input \in CreateInputs :
          (/\ ret'.op = "createPersona"
           /\ CreatePersona(input)
           /\ input.name \in NamesOf(personas))
          => /\ ret'.status = "NameConflict"
             /\ Len(personas') = Len(personas)]_vars

WitnessC7 ==
    /\ ret.op = "createPersona"
    /\ ret.status = "NameConflict"
    /\ Len(personas) = 2

\* C8: createPersona with a name that no active record has returns a record
\* whose id is the id of no active or archived record, whose createdAt is its
\* updatedAt and whose changelog is one `created` entry, and listPersonas()
\* and getPersona(id) return that record right after the call.
ClaimC8 ==
    [][\A input \in CreateInputs :
          (/\ ret'.op = "createPersona"
           /\ CreatePersona(input)
           /\ input.name \notin NamesOf(personas))
          => /\ ret'.status = "ok"
             /\ ret'.value[1].id \notin MapKeys(personas) \cup MapKeys(archivedPersonas)
             /\ ret'.value[1].createdAt = ret'.value[1].updatedAt
             /\ Len(ret'.value[1].changelog) = 1
             /\ ret'.value[1].changelog[1].action = "created"
             /\ ret'.value[1] \in Range(listPersonas(personas'))
             /\ getPersona(personas', ret'.value[1].id) = ret'.value]_vars

WitnessC8 ==
    /\ ret.op = "createPersona"
    /\ ret.status = "ok"
    /\ archivedPersonas # EmptyMap
    /\ Len(personas) = 2

\* C9: the active and the archived collection never hold the same id, and
\* the id of a created or duplicated record was the id of no earlier record.
ClaimC9 ==
    /\ [](MapKeys(personas) \cap MapKeys(archivedPersonas) = {})
    /\ [][(/\ ret'.op \in {"createPersona", "duplicatePersona"}
           /\ ret'.status = "ok"
           /\ personas' # personas)
          => ret'.value[1].id \notin hist.usedIds]_vars

WitnessC9 ==
    /\ ret.op = "duplicatePersona"
    /\ ret.status = "ok"
    /\ archivedPersonas # EmptyMap

\* C10: archivePersona on an active id returns true; from then on
\* getPersona(id) finds nothing and listPersonas() and findByTag() do not
\* return the record, and a flush() called afterwards writes the id under
\* archived and not under active.
ClaimC10 ==
    /\ [](\A id \in hist.archivedOk :
            /\ getPersona(personas, id) = Undefined
            /\ \A p \in Range(listPersonas(personas)) : p.id # id
            /\ \A tag \in TagValues :
                  \A p \in Range(findByTag(personas, tag)) : p.id # id)
    /\ [][\A id \in 1..nextId :
             (/\ ret'.op = "archivePersona"
              /\ ArchivePersona(id)
              /\ MapHas(personas, id))
             => ret'.value = Some(TRUE)]_vars
    /\ [][\A i \in 1..Len(inflight) :
             (/\ ret'.op = "saveSucceeded"
              /\ SaveSucceed(i)
              /\ inflight[i].origin = "flush")
             => \A id \in inflight[i].archivedOk :
                   /\ id \in DocIds(file'.value.fields.archived.items)
                   /\ id \notin DocIds(file'.value.fields.active.items)]_vars

WitnessC10 ==
    /\ ret.op = "saveSucceeded"
    /\ \E id \in hist.archivedOk :
          /\ id \in DocIds(file.value.fields.archived.items)
          /\ "tags" \in DOMAIN MapGet(archivedPersonas, id)[1]

\* C11: archivePersona on an id that is not in the active collection, unknown
\* or archived already, returns false without raising and leaves both
\* collections, the dirty flag and the debounce timer as they were.
ClaimC11 ==
    [][\A id \in 0..nextId :
          (/\ ret'.op = "archivePersona"
           /\ ArchivePersona(id)
           /\ id \notin MapKeys(personas))
          => /\ ret'.status = "ok"
             /\ ret'.value = Some(FALSE)
             /\ UNCHANGED <<personas, archivedPersonas, isDirty, timer>>]_vars

WitnessC11 ==
    /\ ret.op = "archivePersona"
    /\ ret.value = Some(FALSE)
    /\ archivedPersonas # EmptyMap
    /\ isDirty
    /\ timer > 0

\* C12: an id of the archived collection is in it after every step, with the
\* same record, and is not in the active collection; updatePersona and
\* duplicatePersona on it are rejected and archivePersona on it returns false.
ClaimC12 ==
    /\ [][\A i \in 1..Len(archivedPersonas) :
             /\ MapGet(archivedPersonas', archivedPersonas[i].k)
                    = Some(archivedPersonas[i].v)
             /\ archivedPersonas[i].k \notin MapKeys(personas')]_vars
    /\ [][\A id \in MapKeys(archivedPersonas) :
             /\ \A updates \in UpdateInputs :
                   (ret'.op = "updatePersona" /\ UpdatePersona(id, updates))
                       => ret'.status # "ok"
             /\ (ret'.op = "duplicatePersona" /\ DuplicatePersona(id))
                    => ret'.status # "ok"
             /\ (ret'.op = "archivePersona" /\ ArchivePersona(id))
                    => ret'.value = Some(FALSE)]_vars

WitnessC12 ==
    /\ ret.op = "archivePersona"
    /\ ret.value = Some(TRUE)
    /\ Len(archivedPersonas) = 2

\* the value of a field, for the comparison of an update with a record: the
\* settings are a key-value map, whatever the order of its keys
FieldValue(key, value) ==
    IF key = "settings" /\ value # Undefined THEN Some(Range(value[1])) ELSE value

\* C13: updatePersona on an active id with a partial update in which no
\* supplied field differs from the record's value returns the record as it
\* was and leaves the collections, the dirty flag and the timer as they were.
ClaimC13 ==
    [][\A id \in 0..nextId, updates \in PartialUpdates :
          (/\ ret'.op = "updatePersona"
           /\ id \in MapKeys(personas)
           /\ UpdatePersona(id, updates)
           /\ \A key \in DOMAIN updates :
                 FieldValue(key, Get(MapGet(personas, id)[1], key))
                     = FieldValue(key, Get(updates, key)))
          => /\ ret'.status = "ok"
             /\ ret'.value = MapGet(personas, id)
             /\ UNCHANGED <<personas, archivedPersonas, isDirty, timer>>]_vars

\* C14: whatever an updatePersona partial update carries for id, createdAt,
\* updatedAt or changelog, every stored record keeps its id and its
\* createdAt, its updatedAt is not the value of the caller, and its changelog
\* is the one it had, or that one followed by one `updated` entry of the
\* registry.
ClaimC14 ==
    [][ret'.op = "updatePersona" =>
          \A id \in MapKeys(personas) :
             LET old == MapGet(personas, id)[1]
                 new == MapGet(personas', id)[1]
             IN  /\ MapHas(personas', id)
                 /\ new.id = old.id
                 /\ new.createdAt = old.createdAt
                 /\ \A updates \in PartialUpdates :
                       "updatedAt" \in DOMAIN updates
                           => new.updatedAt # updates.updatedAt
                 /\ \/ new.changelog = old.changelog
                    \/ /\ Len(new.changelog) = Len(old.changelog) + 1
                       /\ SubSeq(new.changelog, 1, Len(old.changelog)) = old.changelog
                       /\ new.changelog[Len(new.changelog)].action = "updated"
                       /\ new.changelog[Len(new.changelog)].timestamp = clock]_vars

WitnessC14 ==
    /\ ret.op = "updatePersona"
    /\ ret.status = "ok"
    /\ ret.value # Undefined
    /\ LET last == ret.value[1].changelog[Len(ret.value[1].changelog)]
       IN  /\ last.action = "updated"
           /\ "changelog" \in Range(last.details[2])
           /\ ret.value[1].description = "e"

\* C15: updatePersona on an active id with a partial update whose keys are all
\* among id, createdAt, updatedAt and changelog is a no-op: the record, its
\* updatedAt and changelog included, the dirty flag and the timer are as they
\* were.
ClaimC15 ==
    [][\A id \in 0..nextId, updates \in PartialUpdates :
          (/\ ret'.op = "updatePersona"
           /\ id \in MapKeys(personas)
           /\ UpdatePersona(id, updates)
           /\ DOMAIN updates \subseteq {"id", "createdAt", "updatedAt", "changelog"})
          => /\ ret'.value = MapGet(personas, id)
             /\ UNCHANGED <<personas, archivedPersonas, isDirty, timer>>]_vars

\* C16: duplicatePersona and updatePersona on an id that is in neither
\* collection fail with NotFound, and on an id that is in the archived
\* collection only with Archived and ArchivedImmutable.
ClaimC16 ==
    [][\A id \in 0..nextId :
          id \notin MapKeys(personas) =>
             /\ (ret'.op = "duplicatePersona" /\ DuplicatePersona(id))
                    => ret'.status = IF id \in MapKeys(archivedPersonas)
                                     THEN "Archived" ELSE "NotFound"
             /\ \A updates \in PartialUpdates :
                   (ret'.op = "updatePersona" /\ UpdatePersona(id, updates))
                       => ret'.status = IF id \in MapKeys(archivedPersonas)
                                        THEN "ArchivedImmutable" ELSE "NotFound"]_vars

WitnessC16 ==
    /\ ret.op = "duplicatePersona"
    /\ ret.status = "Archived"
    /\ hist.mutated

\* C17: updatePersona with a name that differs from the record's name and is
\* the name of another active record fails with NameConflict and leaves the
\* record as it was; with the record's own name it does not raise NameConflict.
ClaimC17 ==
    [][\A id \in 0..nextId, updates \in PartialUpdates :
          (/\ ret'.op = "updatePersona"
           /\ id \in MapKeys(personas)
           /\ UpdatePersona(id, updates)
           /\ "name" \in DOMAIN updates)
          => LET persona == MapGet(personas, id)[1]
             IN  /\ (/\ updates.name # persona.name
                     /\ \E i \in 1..Len(personas) :
                           personas[i].k # id /\ personas[i].v.name = updates.name)
                    => /\ ret'.status = "NameConflict"
                       /\ personas' = personas
                 /\ updates.name = persona.name
                        => ret'.status # "NameConflict"]_vars

\* candidate n of the copy names of root
Candidate(root, n) ==
    IF n = 1 THEN root \o <<" - Copy">>
    ELSE root \o <<" - Copy", " - " \o ToString(n)>>

\* the name ends in " - Copy" or " - Copy - <n>"
HasCopySuffix(name) ==
    \/ Len(name) >= 1 /\ name[Len(name)] = " - Copy"
    \/ /\ Len(name) >= 2
       /\ name[Len(name) - 1] = " - Copy"
       /\ \E n \in 0..MaxCopyAttempts : name[Len(name)] = " - " \o ToString(n)

\* the name without its copy suffix
RootName(name) ==
    IF ~HasCopySuffix(name) THEN name
    ELSE IF name[Len(name)] = " - Copy" THEN SubSeq(name, 1, Len(name) - 1)
         ELSE SubSeq(name, 1, Len(name) - 2)

\* name is the first of the copy names of root that no record has
FirstUnused(name, root, names) ==
    \E n \in 1..(Cardinality(names) + 1) :
        /\ name = Candidate(root, n)
        /\ name \notin names
        /\ \A k \in 1..(n - 1) : Candidate(root, k) \in names

\* C18: duplicatePersona of an active record named X names the copy with the
\* first of "X - Copy", "X - Copy - 2", "X - Copy - 3", ... that is the name
\* of no active and no archived record, and the name of a copy is never the
\* name of a record of either collection.
ClaimC18 ==
    [][\A id \in 0..nextId :
          (/\ ret'.op = "duplicatePersona"
           /\ id \in MapKeys(personas)
           /\ DuplicatePersona(id))
          => LET name == MapGet(personas, id)[1].name
                 names == NamesOf(personas) \cup NamesOf(archivedPersonas)
             IN  /\ ret'.status = "ok"
                 /\ ret'.value[1].name \notin names
                 /\ ~HasCopySuffix(name)
                        => FirstUnused(ret'.value[1].name, name, names)]_vars

WitnessC18 ==
    /\ ret.op = "duplicatePersona"
    /\ ret.status = "ok"
    /\ ret.value[1].name = Candidate(<<"X">>, 3)
    /\ <<"X", " - Copy">> \in NamesOf(archivedPersonas)
    /\ Candidate(<<"X">>, 2) \in NamesOf(personas)

\* C19: duplicatePersona of an active record named "<root> - Copy" or
\* "<root> - Copy - <n>" names the copy with the first of "<root> - Copy",
\* "<root> - Copy - 2", ... that no record has, and not with a second
\* " - Copy" after the name of the record.
ClaimC19 ==
    [][\A id \in 0..nextId :
          (/\ ret'.op = "duplicatePersona"
           /\ id \in MapKeys(personas)
           /\ DuplicatePersona(id)
           /\ HasCopySuffix(MapGet(personas, id)[1].name))
          => /\ ret'.status = "ok"
             /\ FirstUnused(ret'.value[1].name,
                            RootName(MapGet(personas, id)[1].name),
                            NamesOf(personas) \cup NamesOf(archivedPersonas))]_vars

\* C20: duplicatePersona on an active id adds one active record with an id no
\* record had, with the description, instructions, tags and settings of the
\* original, and with a changelog of a `created` entry followed by a
\* `duplicated_from` entry with the id of the original; the original is as
\* it was.
ClaimC20 ==
    [][\A id \in 0..nextId :
          (/\ ret'.op = "duplicatePersona"
           /\ id \in MapKeys(personas)
           /\ DuplicatePersona(id))
          => LET original == MapGet(personas, id)[1]
                 copy == ret'.value[1]
             IN  /\ ret'.status = "ok"
                 /\ Len(personas') = Len(personas) + 1
                 /\ copy.id \notin MapKeys(personas) \cup MapKeys(archivedPersonas)
                 /\ MapGet(personas', copy.id) = Some(copy)
                 /\ \A key \in {"description", "instructions", "tags", "settings"} :
                       Get(copy, key) = Get(original, key)
                 /\ Len(copy.changelog) = 2
                 /\ copy.changelog[1].action = "created"
                 /\ copy.changelog[2].action = "duplicated_from"
                 /\ copy.changelog[2].details = <<"Source ID: ", id>>
                 /\ MapGet(personas', id) = Some(original)
                 /\ archivedPersonas' = archivedPersonas]_vars

\* C21: cancelPendingSave() disarms the timer, so that a timer armed before
\* the call never invokes _saveIfDirty unless a later mutation arms it again;
\* the call changes neither the collections nor the dirty flag, nor the
\* saves in flight and the file; called when no timer is armed, which
\* includes a second call in a row, it changes nothing at all.
ClaimC21 ==
    [][/\ ret'.op = "cancelPendingSave"
          => /\ timer' = -1
             /\ UNCHANGED <<personas, archivedPersonas, isDirty, inflight, file>>
             /\ timer = -1
                => UNCHANGED <<personas, archivedPersonas, isDirty,
                               autoSaveEnabled, timer, inflight, file, nextId,
                               clock>>
       /\ ret'.op = "timer" => ~hist.cancelled
       /\ hist'.cancelled => timer' = -1
       /\ Len(inflight') > Len(inflight) => ~hist.cancelled]_vars

\* a pending auto-save of a dirty registry was cancelled, and cancelled again
WitnessC21 ==
    /\ ret.op = "cancelPendingSave"
    /\ hist.cancelled
    /\ autoSaveEnabled /\ isDirty
    /\ timer = -1
    /\ inflight = <<>>
    /\ hist.saves = 0

\* C22: with autoSaveEnabled false, no mutation and no expiry of the
\* debounce timer invokes the adapter's save: every save in flight was
\* invoked by flush(), an expiry of the timer leaves the saves in flight, the
\* file and the dirty flag as they are, and the dirty flag is cleared only by
\* the success of a save that flush() invoked.
ClaimC22 ==
    [][~autoSaveEnabled
       => /\ \A i \in 1..Len(inflight') : inflight'[i].origin = "flush"
          /\ Len(inflight') > Len(inflight) => ret'.op = "flush"
          /\ ret'.op = "timer" => UNCHANGED <<inflight, file, isDirty>>
          /\ (isDirty /\ ~isDirty')
             => /\ ret'.op = "saveSucceeded"
                /\ \E i \in 1..Len(inflight) :
                      /\ inflight[i].origin = "flush"
                      /\ inflight' = Remove(inflight, i)]_vars

\* the timer of a dirty registry expired with auto-save off, and nothing
\* was saved
WitnessC22 ==
    /\ ~autoSaveEnabled
    /\ ret.op = "timer"
    /\ isDirty
    /\ hist.saves = 0
    /\ inflight = <<>>

\* the step is the failure of save i, which `origin` invoked
FailureOf(i, origin) ==
    /\ ret'.op = "saveFailed"
    /\ i \in 1..Len(inflight)
    /\ inflight[i].origin = origin
    /\ inflight' = Remove(inflight, i)

\* C23: when the adapter's save raises during a timer-driven auto-save, the
\* error is logged and reaches no caller; the failure changes neither the
\* dirty flag (which is set when no other save was invoked) nor the
\* collections nor the file, invokes no further save and arms no timer;
\* afterwards a flush(), or the expiry of the timer that a later mutation
\* arms, invokes save with the state of that moment.
ClaimC23 ==
    [][/\ \A i \in 1..Len(inflight) :
             FailureOf(i, "auto")
             => /\ ret'.status = "logged"
                /\ UNCHANGED <<isDirty, personas, archivedPersonas, file, timer>>
                /\ hist.saves = 1 => isDirty'
       /\ (hist.failedAuto /\ ret'.op = "flush")
          => inflight' = Append(inflight, SaveCall("flush"))
       /\ (hist.failedAuto /\ ret'.op \in {"createPersona", "archivePersona"}
              /\ <<personas, archivedPersonas>>' # <<personas, archivedPersonas>>)
          => timer' = DebounceSaveMs /\ isDirty'
       /\ (hist.failedAuto /\ ret'.op = "timer" /\ isDirty)
          => inflight' = Append(inflight, SaveCall("auto"))]_vars

\* an auto-save failed, and a later save has written the current state
WitnessC23 ==
    /\ hist.failedAuto
    /\ ret.op = "saveSucceeded"
    /\ ~isDirty
    /\ inflight = <<>>
    /\ Load(file) = State
    /\ hist.mutated

\* C24: when the adapter's save raises during flush(), the caller of flush
\* gets the error as a StorageFailure; neither the call of flush nor the
\* failure changes the dirty flag, the collections or the file.
ClaimC24 ==
    [][/\ ret'.op = "flush"
          => UNCHANGED <<isDirty, personas, archivedPersonas, file>>
       /\ \A i \in 1..Len(inflight) :
             FailureOf(i, "flush")
             => /\ ret'.status = "StorageFailure"
                /\ UNCHANGED <<isDirty, personas, archivedPersonas, file>>]_vars

\* the flush() of a dirty registry failed, and the registry is still dirty
WitnessC24 ==
    /\ ret.op = "saveFailed"
    /\ ret.status = "StorageFailure"
    /\ isDirty
    /\ hist.mutated
    /\ inflight = <<>>

\* the maps a and b hold the same ids, and under each id equal records
SameRecords(a, b) ==
    /\ MapKeys(a) = MapKeys(b)
    /\ \A id \in MapKeys(a) : MapGet(a, id) = MapGet(b, id)

\* every record of the map is stored under its own id
KeyedById(m) == \A i \in 1..Len(m) : m[i].k = m[i].v.id

ItemsOf(f, key) ==
    IF /\ f.kind = "json"
       /\ f.value.type = "object"
       /\ key \in DOMAIN f.value.fields
       /\ f.value.fields[key].type = "array"
    THEN f.value.fields[key].items
    ELSE <<>>

\* the entries of an array that have an id
WithId(items) ==
    {items[i] : i \in {j \in 1..Len(items) :
                          items[j] # JsonNull /\ "id" \in DOMAIN items[j]}}

\* the file is missing, blank, not JSON, or JSON without an `active` and
\* without an `archived` array
LacksStructure(f) ==
    \/ f.kind \in {"ENOENT", "blank", "invalid"}
    \/ f.kind = "json" /\ ItemsOf(f, "active") = <<>>
                       /\ ItemsOf(f, "archived") = <<>>

ClaimC27 ==
    (ret.op = "create" /\ file.kind = "EACCES") => ret.status = "StorageFailure"

IsPrefix(a, b) == Len(a) <= Len(b) /\ SubSeq(b, 1, Len(a)) = a

\* the record of id after the step: in active, or moved to archived
RecordAfter(id) ==
    IF id \in MapKeys(personas') THEN MapGet(personas', id)[1]
    ELSE MapGet(archivedPersonas', id)[1]

\* C28: at every step, every record of the active or of the archived
\* collection is still in one of the two afterwards, and its changelog before
\* the step is a prefix of its changelog after it: entries are appended only,
\* also by an updatePersona whose partial update carries a changelog and by
\* the move from active to archived.
ClaimC28 ==
    [][/\ \A id \in MapKeys(personas) :
             /\ id \in MapKeys(personas') \cup MapKeys(archivedPersonas')
             /\ IsPrefix(MapGet(personas, id)[1].changelog,
                         RecordAfter(id).changelog)
       /\ \A id \in MapKeys(archivedPersonas) \ MapKeys(personas) :
             /\ id \in MapKeys(archivedPersonas')
             /\ IsPrefix(MapGet(archivedPersonas, id)[1].changelog,
                         MapGet(archivedPersonas', id)[1].changelog)]_vars

\* a record was updated and then archived: its changelog holds the entry of
\* its creation, the `updated` entry and the `archived` entry, in this order
WitnessC28 ==
    \E i \in 1..Len(archivedPersonas) :
        LET changelog == archivedPersonas[i].v.changelog
        IN  /\ Len(changelog) = 3
            /\ changelog[1].action = "created"
            /\ changelog[2].action = "updated"
            /\ changelog[3].action = "archived"

ActiveRecords == {personas[i].v : i \in 1..Len(personas)}

\* the active records that carry the tag
Tagged(tag) ==
    {p \in ActiveRecords :
        "tags" \in DOMAIN p /\ \E j \in 1..Len(p.tags) : p.tags[j] = tag}

\* C29: in every state listPersonas() returns the active records, each
\* once; getPersona(id) returns the active record of id, and nothing for an
\* id that is not active, archived or not; findByTag(tag) returns the active
\* records whose tags contain tag, each once, and never a record without
\* tags; a query returns this result and changes neither the collections,
\* the dirty flag, the timer, the saves in flight nor the file.
ClaimC29 ==
    [][/\ Range(listPersonas(personas)) = ActiveRecords
       /\ Len(listPersonas(personas)) = Len(personas)
       /\ \A id \in 0..nextId :
             IF id \in MapKeys(personas)
             THEN /\ getPersona(personas, id) \in {Some(p) : p \in ActiveRecords}
                  /\ getPersona(personas, id)[1].id = id
             ELSE getPersona(personas, id) = Undefined
       /\ \A tag \in QueryTags :
             /\ Range(findByTag(personas, tag)) = Tagged(tag)
             /\ Len(findByTag(personas, tag)) = Cardinality(Tagged(tag))
       /\ ret'.op \in {"listPersonas", "getPersona", "findByTag"}
          => /\ UNCHANGED <<personas, archivedPersonas, isDirty, timer,
                            inflight, file>>
             /\ ret'.status = "ok"
             /\ ret'.op = "listPersonas"
                => ret'.value = Some(listPersonas(personas))
             /\ ret'.op = "getPersona"
                => ret'.value \in {getPersona(personas, id) : id \in 0..nextId}
             /\ ret'.op = "findByTag"
                => ret'.value \in {Some(findByTag(personas, tag)) : tag \in QueryTags}]_vars

\* findByTag returned the one tagged active record of a dirty registry
\* with a pending timer that also holds an untagged active record and an
\* archived record with the same tag
WitnessC29 ==
    /\ ret.op = "findByTag"
    /\ Len(ret.value[1]) = 1
    /\ Len(personas) > 1
    /\ \E i \in 1..Len(archivedPersonas) :
          /\ "tags" \in DOMAIN archivedPersonas[i].v
          /\ archivedPersonas[i].v.tags = ret.value[1][1].tags
    /\ isDirty /\ timer > 0

\* C30: every call of flush(), on a dirty or on a clean registry, invokes
\* the adapter's save once, with the document of the active and archived
\* collections of that moment; when the save succeeds, the file holds that
\* document and the dirty flag is clear.
ClaimC30 ==
    [][/\ ret'.op = "flush"
          => /\ Len(inflight') = Len(inflight) + 1
             /\ SubSeq(inflight', 1, Len(inflight)) = inflight
             /\ inflight'[Len(inflight')].origin = "flush"
             /\ inflight'[Len(inflight')].doc =
                    JsonObject([active |-> JsonArray(listPersonas(personas)),
                                archived |-> JsonArray(MapValues(archivedPersonas))])
       /\ \A i \in 1..Len(inflight) :
             (/\ ret'.op = "saveSucceeded"
              /\ inflight[i].origin = "flush"
              /\ inflight' = Remove(inflight, i))
             => ~isDirty' /\ file' = JsonFile(inflight[i].doc)]_vars

\* the flush() of a freshly loaded, clean registry has written its state
WitnessC30 ==
    /\ ret.op = "saveSucceeded"
    /\ ~hist.mutated
    /\ ~isDirty
    /\ hist.saves = 1
    /\ personas # EmptyMap
    /\ file = JsonFile(SaveDocument(State))

MutatingOps == {"createPersona", "duplicatePersona", "updatePersona", "archivePersona"}

\* C31: a call of createPersona, duplicatePersona, updatePersona or
\* archivePersona that changes the collections leaves the one debounce timer
\* armed for the full interval, and invokes no save and writes no file
\* itself; a call that changes nothing leaves the timer as it is; the timer
\* never holds more than one wait, and it invokes _saveIfDirty only when the
\* full interval has passed since the most recent mutation.
ClaimC31 ==
    [][/\ timer' \in -1..DebounceSaveMs
       /\ ret'.op \in MutatingOps
          => /\ Len(inflight') = Len(inflight)
             /\ UNCHANGED file
             /\ IF <<personas, archivedPersonas>>' # <<personas, archivedPersonas>>
                THEN timer' = DebounceSaveMs /\ hist'.mutatedAt = clock
                ELSE UNCHANGED timer
       /\ ret'.op = "timer"
          => /\ hist.mutated
             /\ clock - hist.mutatedAt >= DebounceSaveMs
       /\ Len(inflight') > Len(inflight) => ret'.op = "timer"]_vars

\* the timer was re-armed by a second mutation when the first wait had run
\* out but not yet expired, and the save it invoked came a full interval
\* after that second mutation
WitnessC31 ==
    /\ ret.op = "timer"
    /\ hist.mutations = 2
    /\ hist.saves = 1
    /\ inflight # <<>>
    /\ clock - hist.mutatedAt = DebounceSaveMs
    /\ clock > DebounceSaveMs

\* the record `after` is the record `before` with the one entry appended to
\* its changelog and every other field as it was
AppendedOnly(before, after, entry) ==
    /\ DOMAIN after = DOMAIN before
    /\ \A key \in DOMAIN before \ {"changelog"} : after[key] = before[key]
    /\ after.changelog = Append(before.changelog, entry)

EntriesOf(changelog, action) ==
    {j \in 1..Len(changelog) : changelog[j].action = action}

ChangedContent(persona, updates) ==
    {key \in DOMAIN updates \cap ContentFields :
        FieldValue(key, Get(persona, key)) # FieldValue(key, Get(updates, key))}

\* C35: after an updatePersona call that changes at least one of name,
\* description, instructions, tags and settings of an active record, the
\* stored record has the time of the call as updatedAt and the changelog it
\* had followed by one `updated` entry whose details name exactly the fields
\* among those five whose value changed, and every field that the partial
\* update does not carry has the value it had.
ClaimC35 ==
    [][\A id \in 0..nextId, updates \in PartialUpdates :
          (/\ ret'.op = "updatePersona"
           /\ ret'.status = "ok"
           /\ id \in MapKeys(personas)
           /\ ChangedContent(MapGet(personas, id)[1], updates) # {}
           /\ UpdatePersona(id, updates))
          => LET old == MapGet(personas, id)[1]
                 new == MapGet(personas', id)[1]
                 last == new.changelog[Len(new.changelog)]
             IN  /\ new.updatedAt = clock
                 /\ Len(new.changelog) = Len(old.changelog) + 1
                 /\ SubSeq(new.changelog, 1, Len(old.changelog)) = old.changelog
                 /\ last.action = "updated"
                 /\ last.timestamp = clock
                 /\ Range(last.details[2]) = ChangedContent(old, updates)
                 /\ \A key \in DOMAIN old \ (DOMAIN updates \cup {"updatedAt", "changelog"}) :
                       key \in DOMAIN new /\ new[key] = old[key]]_vars

\* C36: an updatePersona on an active id whose partial update carries only
\* tags equal to the record's sequence of tags, or settings with the key/value
\* pairs of the record's settings in whatever order of keys, finds no changed
\* field: it returns the record as it was and leaves the collections, the
\* dirty flag and the timer as they were.
ClaimC36 ==
    [][\A id \in 0..nextId, updates \in PartialUpdates :
          (/\ ret'.op = "updatePersona"
           /\ id \in MapKeys(personas)
           /\ DOMAIN updates \subseteq {"tags", "settings"}
           /\ ChangedContent(MapGet(personas, id)[1], updates) = {}
           /\ UpdatePersona(id, updates))
          => /\ ret'.status = "ok"
             /\ ret'.value = MapGet(personas, id)
             /\ UNCHANGED <<personas, archivedPersonas, isDirty, timer>>]_vars

\* C37: createPersona fails with NameConflict exactly when an active record
\* has the name, and updatePersona of an active record only when another
\* active record has it, whatever names the archived records have; a
\* successful archivePersona leaves no active record with the name of the
\* archived one, so that a later createPersona with it succeeds.
ClaimC37 ==
    [][/\ \A name \in StoredNames :
             (ret'.op = "createPersona" /\ CreatePersona([name |-> name]))
             => /\ ret'.status = (IF name \in NamesOf(personas)
                                  THEN "NameConflict" ELSE "ok")
                /\ ret'.status = "ok" => ret'.value[1].name = name
       /\ \A id \in MapKeys(personas), name \in StoredNames :
             (ret'.op = "updatePersona" /\ UpdatePersona(id, [name |-> name]))
             => /\ ret'.status = (IF name \in NamesOf(MapDelete(personas, id))
                                  THEN "NameConflict" ELSE "ok")
                /\ ret'.status = "ok" => MapGet(personas', id)[1].name = name
       /\ \A id \in MapKeys(personas) :
             (ret'.op = "archivePersona" /\ ArchivePersona(id))
             => /\ MapGet(archivedPersonas', id)[1].name \notin NamesOf(personas')
                /\ createPersona(personas', archivedPersonas',
                                 [name |-> MapGet(archivedPersonas', id)[1].name],
                                 Undefined, nextId, clock).status = "ok"]_vars

\* a record was archived and a record with its name was created next to it
WitnessC37 ==
    /\ ret.op = "createPersona"
    /\ ret.status = "ok"
    /\ ret.value[1].name \in NamesOf(archivedPersonas)
    /\ \E id \in hist.archivedOk :
          MapGet(archivedPersonas, id)[1].name = ret.value[1].name

\* C38: duplicatePersona of an active record fails with the internal-limit
\* error exactly when each of the 1000 names "<root> - Copy", "<root> - Copy
\* - 2", ..., "<root> - Copy - 1000" is the name of an active or archived
\* record, and then it creates no record and changes nothing; otherwise it
\* succeeds with one of those 1000 names.
ClaimC38 ==
    [][\A id \in LimitIds :
          (/\ ret'.op = "duplicatePersona"
           /\ id \in MapKeys(personas)
           /\ DuplicatePersona(id))
          => LET root == RootName(MapGet(personas, id)[1].name)
                 names == NamesOf(personas) \cup NamesOf(archivedPersonas)
                 candidates == {Candidate(root, n) : n \in 1..MaxCopyAttempts}
             IN  IF candidates \subseteq names
                 THEN /\ ret'.status = "InternalLimitExceeded"
                      /\ UNCHANGED <<personas, archivedPersonas, isDirty, timer,
                                     nextId>>
                 ELSE /\ ret'.status = "ok"
                      /\ ret'.value[1].name \in candidates \ names
                      /\ Len(personas') = Len(personas) + 1]_vars

\* the search for a copy name of X has given up: its 1000 candidates are
\* names of active and archived records
WitnessC38 ==
    /\ ret.op = "duplicatePersona"
    /\ ret.status = "InternalLimitExceeded"
    /\ Len(personas) + Len(archivedPersonas) > MaxCopyAttempts
    /\ archivedPersonas # EmptyMap

\* the ids of the active records that the file holds without a changelog
LoadedWithoutChangelog ==
    {r.id : r \in {e \in WithId(ItemsOf(file, "active")) :
                       "changelog" \notin DOMAIN e}}
    \cap (MapKeys(personas) \ hist.createdIds)

\* C39: every record loaded from a document whose records lack the
\* changelog field has an empty changelog, and updatePersona with a change
\* that no active name forbids, and archivePersona, of such a record
\* complete without raising.
ClaimC39 ==
    [][/\ ret.op = "create"
          => \A id \in LoadedWithoutChangelog :
                Get(MapGet(personas, id)[1], "changelog") = Some(<<>>)
       /\ \A id \in LoadedWithoutChangelog :
              /\ (ret'.op = "archivePersona" /\ ArchivePersona(id))
                 => ret'.status = "ok" /\ ret'.value = Some(TRUE)
              /\ \A updates \in UpdateInputs :
                    (/\ ret'.op = "updatePersona"
                     /\ ChangedFields(MapGet(personas, id)[1], updates) # <<>>
                     /\ "name" \in DOMAIN updates
                           => ~NameTaken(personas, updates.name)
                     /\ UpdatePersona(id, updates))
                    => ret'.status = "ok"]_vars

\* the methods whose case of the switch calls a mutating operation
MutatingMethods ==
    {"persona.create", "persona.duplicate", "persona.update", "persona.archive"}

\* the response of the step is a success of a mutating method; for
\* persona.archive, one that found the id
MutationSucceeded ==
    /\ ret'.op \in MutatingMethods
    /\ ret'.status = "ok"
    /\ ret'.op = "persona.archive" => ret'.value = Some([success |-> TRUE])

\* C40: in the stdio server the success response of persona.create,
\* persona.duplicate, persona.update and of a persona.archive that found the
\* id is written only when the flush of the registry has put its collections
\* on the storage file; a request that fails in the registry, a
\* persona.archive that answers success:false and the methods list, get and
\* findByTag call no save and leave the file as it is; and the file is
\* written only by the flush of a request.
ClaimC40 ==
    [][/\ (ret'.op \in ServerMethods /\ ret'.status # "flushing" /\ MutationSucceeded)
          => /\ ret.status = "flushing"
             /\ file' = JsonFile(SaveDocument(State'))
             /\ ~isDirty'
       /\ (/\ ret.op = "create"
           /\ ret'.op \in ServerMethods
           /\ \/ ret'.op \in {"persona.list", "persona.get", "persona.findByTag"}
              \/ ret'.status \notin {"ok", "flushing"}
              \/ ret'.op = "persona.archive"
                 /\ ret'.value = Some([success |-> FALSE]))
          => /\ ret'.status # "flushing"
             /\ inflight' = <<>>
             /\ file' = file
       /\ file' # file
          => /\ ret.status = "flushing"
             /\ ret.op \in MutatingMethods \cup {"persona.flush"}]_vars

\* persona.archive has answered success:true and the file holds the archived
\* record
WitnessC40 ==
    /\ ret.op = "persona.archive"
    /\ ret.status = "ok"
    /\ ret.value = Some([success |-> TRUE])
    /\ archivedPersonas # EmptyMap
    /\ file = JsonFile(SaveDocument(State))

====
